---- MODULE Spec2Model ----
(***************************************************************************)
(* Model of the Polarion n8n node: Polarion.execute (the per-item          *)
(* dispatcher) and polarionApiRequest (the authenticated request helper).  *)
(*                                                                         *)
(* Text that the code concatenates or encodes (paths, identifiers,         *)
(* credentials, the Authorization header) is a sequence of one-character   *)
(* strings.  Text that the code only passes through (the PQL query, the    *)
(* field selection, error messages, the raw JSON payload) is a string.     *)
(* A JavaScript object is a record over the keys it has; a decoded JSON    *)
(* value that the code inspects with Array.isArray is tagged by its type.  *)
(***************************************************************************)
EXTENDS Integers, Sequences, FiniteSets, TLC

VARIABLES resource, operation, continueOnFail, credentials, items,
          i, pc, returnData, inflight, sent, history, thrown, output

vars == <<resource, operation, continueOnFail, credentials, items,
          i, pc, returnData, inflight, sent, history, thrown, output>>

\* Largest number of input items of one execution.
MaxItems == 2

----------------------------------------------------------------------------
(* Characters, bytes, base64 and percent-encoding                          *)

\* The printable ASCII characters, in code order from 32 (space) to 126
\* (the grave accent, code 96, is spelled out).
Ascii ==
  <<" ", "!", "\"", "#", "$", "%", "&", "'", "(", ")", "*", "+", ",", "-", ".", "/",
    "0", "1", "2", "3", "4", "5", "6", "7", "8", "9", ":", ";", "<", "=", ">", "?",
    "@", "A", "B", "C", "D", "E", "F", "G", "H", "I", "J", "K", "L", "M", "N", "O",
    "P", "Q", "R", "S", "T", "U", "V", "W", "X", "Y", "Z", "[", "\\", "]", "^", "_",
    "grave", "a", "b", "c", "d", "e", "f", "g", "h", "i", "j", "k", "l", "m", "n", "o",
    "p", "q", "r", "s", "t", "u", "v", "w", "x", "y", "z", "{", "|", "}", "~">>

\* A UTF-16 code unit that is half of a surrogate pair, standing alone.
LoneSurrogate == "\\uD800"

IsAscii(c) == \E n \in DOMAIN Ascii : Ascii[n] = c

\* The code of an ASCII character, which is also its single UTF-8 byte.
CharCode(c) == 31 + (CHOOSE n \in DOMAIN Ascii : Ascii[n] = c)

\* Buffer.from(str): the UTF-8 bytes of a string.
BufferFrom(str) == [k \in DOMAIN str |-> CharCode(str[k])]

Base64Alphabet ==
  <<"A", "B", "C", "D", "E", "F", "G", "H", "I", "J", "K", "L", "M", "N", "O", "P",
    "Q", "R", "S", "T", "U", "V", "W", "X", "Y", "Z", "a", "b", "c", "d", "e", "f",
    "g", "h", "i", "j", "k", "l", "m", "n", "o", "p", "q", "r", "s", "t", "u", "v",
    "w", "x", "y", "z", "0", "1", "2", "3", "4", "5", "6", "7", "8", "9", "+", "/">>

Base64Pad == "="

Sextet(n) == Base64Alphabet[n + 1]

RECURSIVE ToBase64(_)
\* Buffer.toString('base64'): three bytes become four characters; a last
\* group of one or two bytes is padded with '='.
ToBase64(bytes) ==
  IF Len(bytes) = 0 THEN <<>>
  ELSE IF Len(bytes) = 1 THEN
    LET n == bytes[1] * 16
    IN  <<Sextet(n \div 64), Sextet(n % 64), Base64Pad, Base64Pad>>
  ELSE IF Len(bytes) = 2 THEN
    LET n == (bytes[1] * 256 + bytes[2]) * 4
    IN  <<Sextet(n \div 4096), Sextet((n \div 64) % 64), Sextet(n % 64), Base64Pad>>
  ELSE
    LET n == bytes[1] * 65536 + bytes[2] * 256 + bytes[3]
    IN  <<Sextet(n \div 262144), Sextet((n \div 4096) % 64),
          Sextet((n \div 64) % 64), Sextet(n % 64)>>
        \o ToBase64(SubSeq(bytes, 4, Len(bytes)))

\* The characters encodeURIComponent leaves alone.
UriUnreserved ==
  {"A", "B", "C", "D", "E", "F", "G", "H", "I", "J", "K", "L", "M", "N", "O", "P",
   "Q", "R", "S", "T", "U", "V", "W", "X", "Y", "Z", "a", "b", "c", "d", "e", "f",
   "g", "h", "i", "j", "k", "l", "m", "n", "o", "p", "q", "r", "s", "t", "u", "v",
   "w", "x", "y", "z", "0", "1", "2", "3", "4", "5", "6", "7", "8", "9",
   "-", "_", ".", "!", "~", "*", "'", "(", ")"}

HexDigits ==
  <<"0", "1", "2", "3", "4", "5", "6", "7", "8", "9", "A", "B", "C", "D", "E", "F">>

PercentEncode(byte) == <<"%", HexDigits[(byte \div 16) + 1], HexDigits[(byte % 16) + 1]>>

Ok(v) == [ok |-> TRUE, value |-> v]

Err(k, m) == [ok |-> FALSE, kind |-> k, message |-> m]

UriErrorMessage == <<"URI malformed">>

RECURSIVE EncodeChars(_)
EncodeChars(str) ==
  IF Len(str) = 0 THEN <<>>
  ELSE (IF str[1] \in UriUnreserved THEN <<str[1]>>
        ELSE PercentEncode(CharCode(str[1])))
       \o EncodeChars(Tail(str))

\* encodeURIComponent that returns its argument as it is.
encodeURIComponentVerbatim(str) == Ok(str)

\* encodeURIComponent(str): throws URIError on a lone surrogate, otherwise
\* percent-encodes the UTF-8 bytes of every character that is not unreserved.
encodeURIComponent(str) ==
  IF \E k \in DOMAIN str : ~IsAscii(str[k])
  THEN Err("uri", UriErrorMessage)
  ELSE Ok(EncodeChars(str))

----------------------------------------------------------------------------
(* JavaScript values                                                       *)

EmptyObject == [k \in {} |-> TRUE]

Has(obj, key) == key \in DOMAIN obj

JUndefined == [type |-> "undefined"]

JNull == [type |-> "null"]

JArray(elems) == [type |-> "array", elems |-> elems]

JObject(props) == [type |-> "object", props |-> props]

\* value[key]: undefined when the value is not an object that has the key.
Prop(value, key) ==
  IF value.type = "object" /\ Has(value.props, key) THEN value.props[key] ELSE JUndefined

Truthy(value) == value.type \notin {"undefined", "null"}

IsArray(value) == value.type = "array"

\* options[key] || dflt for a numeric option: undefined and 0 are falsy.
NumberOr(obj, key, dflt) == IF Has(obj, key) /\ obj[key] # 0 THEN obj[key] ELSE dflt

ValidData == "{\"title\":\"T\"}"

InvalidData == "{title:"

DefaultData == "{}"

SyntaxErrorMessage == <<"Unexpected token t in JSON at position 1">>

\* JSON.parse on the payload texts of the model.
JSONParse(text) ==
  CASE text = DefaultData -> Ok(JObject(EmptyObject))
    [] text = ValidData -> Ok(JObject([title |-> "T"]))
    [] OTHER -> Err("parse", SyntaxErrorMessage)

\* Object.assign(target, source): copies the own properties of an object.
ObjectAssign(target, source) ==
  IF source.type = "object" THEN source.props @@ target ELSE target

----------------------------------------------------------------------------
(* The node description: resources and operations                          *)

WorkItems == <<"w", "o", "r", "k", "I", "t", "e", "m", "s">>
Documents == <<"d", "o", "c", "u", "m", "e", "n", "t", "s">>
Projects == <<"p", "r", "o", "j", "e", "c", "t", "s">>
Users == <<"u", "s", "e", "r", "s">>
Enumerations == <<"e", "n", "u", "m", "e", "r", "a", "t", "i", "o", "n", "s">>
Jobs == <<"j", "o", "b", "s">>
Collections == <<"c", "o", "l", "l", "e", "c", "t", "i", "o", "n", "s">>
Plans == <<"p", "l", "a", "n", "s">>
Pages == <<"p", "a", "g", "e", "s">>
TestRuns == <<"t", "e", "s", "t", "R", "u", "n", "s">>
TestRecords == <<"t", "e", "s", "t", "R", "e", "c", "o", "r", "d", "s">>
TestSteps == <<"t", "e", "s", "t", "S", "t", "e", "p", "s">>
Approvals == <<"a", "p", "p", "r", "o", "v", "a", "l", "s">>

\* The resources routed through the generic resourceId branch.
SimpleResources ==
  {Users, Enumerations, Jobs, Collections, Plans, Pages, TestRuns, TestRecords,
   TestSteps, Approvals}

\* The options of the Resource selector.
Resources == {WorkItems, Documents, Projects} \cup SimpleResources

\* The options of the Operation selector.
Operations == {"list", "get", "create", "update", "delete"}

----------------------------------------------------------------------------
(* polarionApiRequest                                                      *)

BasicPrefix == <<"B", "a", "s", "i", "c", " ">>

BearerPrefix == <<"B", "e", "a", "r", "e", "r", " ">>

NoCredentialsMessage == <<"Polarion credentials are not set.">>

InvalidAuthMessage == <<"Invalid authentication method specified in credentials.">>

RequestFailedPrefix == <<"Polarion API request failed: ">>

\* AuthHeader whose last branch is the token branch instead of the error.
AuthHeaderElseBearer(creds) ==
  IF creds = JUndefined THEN Err("config", NoCredentialsMessage)
  ELSE IF creds.authentication = "basic" THEN
    Ok(BasicPrefix \o ToBase64(BufferFrom(creds.username \o <<":">> \o creds.password)))
  ELSE Ok(BearerPrefix \o creds.pat)

\* The Authorization header for the stored credentials, or the error thrown
\* before the request options are built.
AuthHeader(creds) ==
  IF creds = JUndefined THEN Err("config", NoCredentialsMessage)
  ELSE IF creds.authentication = "basic" THEN
    Ok(BasicPrefix \o ToBase64(BufferFrom(creds.username \o <<":">> \o creds.password)))
  ELSE IF creds.authentication = "pat" THEN Ok(BearerPrefix \o creds.pat)
  ELSE Err("config", InvalidAuthMessage)

\* No custom URI: execute always passes undefined.
NoUri == <<>>

\* polarionApiRequest up to the call of helpers.request: the options handed
\* to the host transport, or the error thrown before any network call.
RequestOptions(creds, method, resourcePath, body, qs, uri) ==
  LET authHeader == AuthHeader(creds)
  IN  IF ~authHeader.ok THEN authHeader
      ELSE Ok([baseURL |-> creds.baseUrl,
               url |-> IF uri # NoUri THEN uri ELSE resourcePath,
               method |-> method,
               body |-> body,
               qs |-> qs,
               json |-> TRUE,
               headers |-> ("Content-Type" :> "application/json")
                           @@ ("Accept" :> "application/json")
                           @@ ("Authorization" :> authHeader.value)])

\* The error polarionApiRequest throws when helpers.request rejects.
RequestFailure(error) == Err("request", RequestFailedPrefix \o error.message)

----------------------------------------------------------------------------
(* Polarion.execute: one iteration of the item loop                        *)

DefaultLimit == 50

DefaultSkip == 0

\* The common query parameters (fields, limit, skip).
CommonQs(op, options) ==
  (IF Has(options, "fields") /\ options.fields # "" THEN [fields |-> options.fields]
   ELSE EmptyObject)
  @@ (IF op = "list"
      THEN [limit |-> NumberOr(options, "limit", DefaultLimit),
            skip |-> NumberOr(options, "skip", DefaultSkip)]
      ELSE EmptyObject)

\* BodyAndMethod that reads and parses the data parameter for every operation.
BodyAndMethodParseAlways(op, item) ==
  LET parsed == JSONParse(item.data)
  IN  IF ~parsed.ok THEN parsed
      ELSE IF op \in {"create", "update"}
        THEN Ok([body |-> ObjectAssign(EmptyObject, parsed.value),
                 method |-> IF op = "create" THEN "POST" ELSE "PUT"])
      ELSE IF op = "delete" THEN Ok([body |-> EmptyObject, method |-> "DELETE"])
      ELSE Ok([body |-> EmptyObject, method |-> "GET"])

\* The request body and method: the data parameter is read and parsed for
\* create and update only.
BodyAndMethod(op, item) ==
  IF op \in {"create", "update"} THEN
    LET parsed == JSONParse(item.data)
    IN  IF parsed.ok
        THEN Ok([body |-> ObjectAssign(EmptyObject, parsed.value),
                 method |-> IF op = "create" THEN "POST" ELSE "PUT"])
        ELSE parsed
  ELSE IF op = "delete" THEN Ok([body |-> EmptyObject, method |-> "DELETE"])
  ELSE Ok([body |-> EmptyObject, method |-> "GET"])

ById(op) == op \in {"get", "update", "delete"}

RoutingErrorMessage(res) == <<"Resource \"">> \o res \o <<"\" routing error.">>

\* Resource routing: the endpoint and the query parameters, or the error.
Routing(res, op, item, qs) ==
  LET base == <<"/">> \o res
  IN  IF res = WorkItems THEN
        IF ById(op) THEN Ok([endpoint |-> base \o <<"/">> \o item.workItemId, qs |-> qs])
        ELSE IF op = "list" THEN Ok([endpoint |-> base, qs |-> [query |-> item.query] @@ qs])
        ELSE Ok([endpoint |-> base, qs |-> qs])
      ELSE IF res = Documents THEN
        IF ById(op) THEN
          LET encoded == encodeURIComponent(item.documentId)
          IN  IF encoded.ok
              THEN Ok([endpoint |-> base \o <<"/">> \o encoded.value, qs |-> qs])
              ELSE encoded
        ELSE Ok([endpoint |-> base, qs |-> qs])
      ELSE IF res = Projects THEN
        IF ById(op) THEN Ok([endpoint |-> base \o <<"/">> \o item.projectId, qs |-> qs])
        ELSE Ok([endpoint |-> base, qs |-> qs])
      ELSE IF res \in SimpleResources THEN
        IF ById(op) THEN Ok([endpoint |-> base \o <<"/">> \o item.resourceId, qs |-> qs])
        ELSE Ok([endpoint |-> base, qs |-> qs])
      ELSE Err("routing", RoutingErrorMessage(res))

\* The try block up to the await: payload, routing, then the request helper.
PrepareRequest(creds, res, op, item) ==
  LET qs == CommonQs(op, item.options)
      bm == BodyAndMethod(op, item)
  IN  IF ~bm.ok THEN bm
      ELSE LET route == Routing(res, op, item, qs)
           IN  IF ~route.ok THEN route
               ELSE RequestOptions(creds, bm.value.method, route.value.endpoint,
                                   bm.value.body, route.value.qs, NoUri)

TypeErrorMessage(type) == <<"Cannot read properties of ", type, " (reading 'data')">>

\* Normalize without the branch for a wrapping data array.
NormalizeNoDataBranch(responseData) ==
  IF responseData.type \in {"undefined", "null"} THEN Err("normalize", TypeErrorMessage(responseData.type))
  ELSE IF IsArray(responseData) THEN Ok(responseData.elems)
  ELSE Ok(<<responseData>>)

\* Standardize output format: the records one response adds to returnData.
Normalize(responseData) ==
  IF responseData.type \in {"undefined", "null"} THEN Err("normalize", TypeErrorMessage(responseData.type))
  ELSE IF Truthy(Prop(responseData, "data")) /\ IsArray(Prop(responseData, "data"))
    THEN Ok(Prop(responseData, "data").elems)
  ELSE IF IsArray(responseData) THEN Ok(responseData.elems)
  ELSE Ok(<<responseData>>)

\* ErrorRecord with a one-based item index.
ErrorRecordOneBased(message, index) == JObject([error |-> message, itemIndex |-> index + 1])

\* The record pushed for a failed item in fail-tolerant mode.
ErrorRecord(message, index) == JObject([error |-> message, itemIndex |-> index])

\* helpers.returnJsonArray: wraps every record as {json: record}.
ReturnJsonArray(data) == [k \in DOMAIN data |-> [json |-> data[k]]]

----------------------------------------------------------------------------
(* The upstream API and the inputs of an execution                         *)

RecordA == JObject([id |-> 1])

RecordB == JObject([id |-> 2])

\* The decoded bodies helpers.request can resolve with (undefined: no body).
Replies ==
  {JObject([data |-> JArray(<<RecordA, RecordB>>)]),
   JObject([data |-> JArray(<<>>)]),
   JArray(<<RecordB, RecordA>>),
   RecordA,
   JObject([data |-> RecordB]),
   JUndefined}

\* The errors helpers.request can reject with.
TransportErrors == {[message |-> <<"socket hang up">>]}

TransportOutcomes ==
  {[resolved |-> TRUE, value |-> r] : r \in Replies}
  \cup {[resolved |-> FALSE, error |-> e] : e \in TransportErrors}

BaseUrl == "https://polarion.example.com/polarion/api/rest/v1"

BasicCredentials(username, password) ==
  [baseUrl |-> BaseUrl, authentication |-> "basic",
   username |-> username, password |-> password, pat |-> <<>>]

PatCredentials(pat) ==
  [baseUrl |-> BaseUrl, authentication |-> "pat",
   username |-> <<>>, password |-> <<>>, pat |-> pat]

\* Stored credentials whose method is not one the helper knows.
OtherCredentials ==
  [baseUrl |-> BaseUrl, authentication |-> "oauth2",
   username |-> <<>>, password |-> <<>>, pat |-> <<>>]

\* The parameters of an item with the defaults of the node description.
DefaultItem ==
  [options |-> EmptyObject, data |-> DefaultData, query |-> "status:open",
   workItemId |-> <<"W", "-", "1">>, documentId |-> <<"D", "o", "c">>,
   projectId |-> <<"P", "1">>, resourceId |-> <<"r", "_", "1">>]

\* A resource tag outside the Resource selector.
UnknownResource == <<"w", "i", "k", "i", "s">>

SeqsUpTo(S, n) == UNION {[1..m -> S] : m \in 0..n}

----------------------------------------------------------------------------
(* State machine                                                           *)

NoReply == [type |-> "none"]

\* What became of one item: "ok" or the kind of its failure, the message of
\* the failure, the reply of the upstream and the number of records added.
HistoryEntry(index, outcome, message, reply, added) ==
  [index |-> index, outcome |-> outcome, message |-> message,
   reply |-> reply, added |-> added]

\* The state execute starts its loop in.
Start ==
  /\ i = 0
  /\ pc = "loop"
  /\ returnData = <<>>
  /\ inflight = <<>>
  /\ sent = <<>>
  /\ history = <<>>
  /\ thrown = <<>>
  /\ output = <<>>

MainItems == {[DefaultItem EXCEPT !.data = d] : d \in {ValidData, InvalidData}}

MainCredentials ==
  {BasicCredentials(<<"u">>, <<"p">>), OtherCredentials, JUndefined}

Init ==
  /\ resource \in {WorkItems, UnknownResource}
  /\ operation \in Operations
  /\ continueOnFail \in BOOLEAN
  /\ credentials \in MainCredentials
  /\ items \in SeqsUpTo(MainItems, MaxItems)
  /\ Start

\* Catch that never consults continueOnFail: always records and continues.
CatchAlwaysContinue(error, reply) ==
  /\ returnData' = Append(returnData, ErrorRecord(error.message, i))
  /\ i' = i + 1
  /\ pc' = "loop"
  /\ history' = Append(history, HistoryEntry(i, error.kind, error.message, reply, 1))
  /\ UNCHANGED thrown

\* Catch that never consults continueOnFail: always rethrows.
CatchAlwaysRethrow(error, reply) ==
  /\ thrown' = <<error>>
  /\ pc' = "thrown"
  /\ history' = Append(history, HistoryEntry(i, error.kind, error.message, reply, 0))
  /\ UNCHANGED <<returnData, i>>

\* The catch block: record the error and continue, or rethrow.
Catch(error, reply) ==
  IF continueOnFail
  THEN /\ returnData' = Append(returnData, ErrorRecord(error.message, i))
       /\ i' = i + 1
       /\ pc' = "loop"
       /\ history' = Append(history, HistoryEntry(i, error.kind, error.message, reply, 1))
       /\ UNCHANGED thrown
  ELSE /\ thrown' = <<error>>
       /\ pc' = "thrown"
       /\ history' = Append(history, HistoryEntry(i, error.kind, error.message, reply, 0))
       /\ UNCHANGED <<returnData, i>>

\* Dispatch that does not await the request before the next iteration.
DispatchNoAwait ==
  /\ pc = "loop"
  /\ i < Len(items)
  /\ LET prepared == PrepareRequest(credentials, resource, operation, items[i + 1])
     IN  IF prepared.ok
         THEN /\ inflight' = Append(inflight, [index |-> i, options |-> prepared.value])
              /\ sent' = Append(sent, i)
              /\ i' = i + 1
              /\ pc' = IF i + 1 < Len(items) THEN "loop" ELSE "awaiting"
              /\ UNCHANGED <<returnData, history, thrown>>
         ELSE /\ Catch(prepared, NoReply)
              /\ UNCHANGED <<inflight, sent>>
  /\ UNCHANGED <<resource, operation, continueOnFail, credentials, items, output>>

\* One iteration of the loop up to the await of helpers.request.
Dispatch ==
  /\ pc = "loop"
  /\ i < Len(items)
  /\ LET prepared == PrepareRequest(credentials, resource, operation, items[i + 1])
     IN  IF prepared.ok
         THEN /\ inflight' = Append(inflight, [index |-> i, options |-> prepared.value])
              /\ sent' = Append(sent, i)
              /\ pc' = "awaiting"
              /\ UNCHANGED <<i, returnData, history, thrown>>
         ELSE /\ Catch(prepared, NoReply)
              /\ UNCHANGED <<inflight, sent>>
  /\ UNCHANGED <<resource, operation, continueOnFail, credentials, items, output>>

\* helpers.request settles: the rest of the iteration.
Respond ==
  /\ pc = "awaiting"
  /\ inflight # <<>>
  /\ \E outcome \in TransportOutcomes :
       /\ inflight' = Tail(inflight)
       /\ IF ~outcome.resolved THEN Catch(RequestFailure(outcome.error), NoReply)
          ELSE LET records == Normalize(outcome.value)
               IN  IF records.ok
                   THEN /\ returnData' = returnData \o records.value
                        /\ i' = i + 1
                        /\ pc' = "loop"
                        /\ history' = Append(history,
                             HistoryEntry(i, "ok", <<>>, outcome.value, Len(records.value)))
                        /\ UNCHANGED thrown
                   ELSE Catch(records, outcome.value)
  /\ UNCHANGED <<resource, operation, continueOnFail, credentials, items, sent, output>>

\* The loop is over: execute returns.
Return ==
  /\ pc = "loop"
  /\ i = Len(items)
  /\ pc' = "done"
  /\ output' = <<ReturnJsonArray(returnData)>>
  /\ UNCHANGED <<resource, operation, continueOnFail, credentials, items,
                 i, returnData, inflight, sent, history, thrown>>

Next == Dispatch \/ Respond \/ Return

Spec == Init /\ [][Next]_vars

----------------------------------------------------------------------------
(* Executions over every resource and operation, with identifiers that     *)
(* hold separators, spaces, percent signs and a lone surrogate             *)

RouteItems ==
  {[DefaultItem EXCEPT !.data = ValidData],
   [DefaultItem EXCEPT !.data = ValidData,
                       !.workItemId = <<"P", "/", "7">>,
                       !.documentId = <<"P", "/", "a", " ", "%">>,
                       !.projectId = <<"a", "/", "b">>,
                       !.resourceId = <<"x", "/", "y", "?">>],
   [DefaultItem EXCEPT !.data = ValidData,
                       !.workItemId = <<>>,
                       !.documentId = <<"D", LoneSurrogate>>,
                       !.projectId = <<"p", LoneSurrogate>>,
                       !.resourceId = <<"~">>]}

InitRoute ==
  /\ resource \in Resources \cup {UnknownResource}
  /\ operation \in Operations
  /\ continueOnFail = FALSE
  /\ credentials = PatCredentials(<<"t", "0", "k">>)
  /\ items \in SeqsUpTo(RouteItems, MaxItems)
  /\ Start

SpecRoute == InitRoute /\ [][Next]_vars

(* Executions over the values of the Common Options collection             *)

OptionChoices ==
  {EmptyObject,
   [fields |-> "id,title"],
   [limit |-> 0, skip |-> 5],
   [fields |-> "id,title", limit |-> 10, skip |-> 0],
   [fields |-> "", limit |-> 10]}

QueryItems ==
  {[DefaultItem EXCEPT !.data = ValidData, !.options = o] : o \in OptionChoices}
  \cup {[DefaultItem EXCEPT !.data = ValidData, !.query = "type:defect AND NOT status:closed"]}

InitQuery ==
  /\ resource \in {WorkItems, Users}
  /\ operation \in Operations
  /\ continueOnFail = FALSE
  /\ credentials = PatCredentials(<<"t", "0", "k">>)
  /\ items \in SeqsUpTo(QueryItems, MaxItems)
  /\ Start

SpecQuery == InitQuery /\ [][Next]_vars

(* Executions over the stored credentials                                  *)

AuthCredentials ==
  {BasicCredentials(u, p) : u \in {<<"u">>, <<"j", "o", "e">>},
                            p \in {<<>>, <<"p">>, <<"s", "3", "c", "!">>}}
  \cup {PatCredentials(t) : t \in {<<"t", "0", "k">>, <<"A", "b", "/", "+", "=">>}}
  \cup {OtherCredentials, JUndefined}

InitAuth ==
  /\ resource = WorkItems
  /\ operation \in {"list", "create"}
  /\ continueOnFail \in BOOLEAN
  /\ credentials \in AuthCredentials
  /\ items \in SeqsUpTo({DefaultItem}, MaxItems)
  /\ Start

SpecAuth == InitAuth /\ [][Next]_vars

----------------------------------------------------------------------------
(* Vocabulary of the properties                                            *)

Range(seq) == {seq[k] : k \in DOMAIN seq}

Failures == {k \in DOMAIN history : history[k].outcome # "ok"}

\* The item a history entry is about.
ItemOf(entry) == items[entry.index + 1]

RECURSIVE AddedBefore(_)
\* The number of records the first k - 1 processed items added to returnData.
AddedBefore(k) == IF k <= 1 THEN 0 ELSE AddedBefore(k - 1) + history[k - 1].added

\* The records the k-th processed item added to returnData.
RecordsOf(k) == SubSeq(returnData, AddedBefore(k) + 1, AddedBefore(k) + history[k].added)

\* A response that is a single bare object: not an array, no data array.
BareObject(reply) ==
  /\ reply.type = "object"
  /\ ~(Has(reply.props, "data") /\ reply.props.data.type = "array")

IsBase64Char(c) == \E n \in DOMAIN Base64Alphabet : Base64Alphabet[n] = c

Base64Index(c) == (CHOOSE n \in DOMAIN Base64Alphabet : Base64Alphabet[n] = c) - 1

RECURSIVE FromBase64(_)
\* The bytes a base64 text stands for; <<-1>> marks a text that is not base64.
FromBase64(text) ==
  IF Len(text) = 0 THEN <<>>
  ELSE IF Len(text) < 4 \/ ~IsBase64Char(text[1]) \/ ~IsBase64Char(text[2]) THEN <<-1>>
  ELSE IF text[3] = Base64Pad THEN
    IF Len(text) = 4 /\ text[4] = Base64Pad
    THEN <<(Base64Index(text[1]) * 64 + Base64Index(text[2])) \div 16>>
    ELSE <<-1>>
  ELSE IF ~IsBase64Char(text[3]) THEN <<-1>>
  ELSE IF text[4] = Base64Pad THEN
    IF Len(text) = 4
    THEN LET n == Base64Index(text[1]) * 4096 + Base64Index(text[2]) * 64
                  + Base64Index(text[3])
         IN  <<n \div 1024, (n \div 4) % 256>>
    ELSE <<-1>>
  ELSE IF ~IsBase64Char(text[4]) THEN <<-1>>
  ELSE LET n == Base64Index(text[1]) * 262144 + Base64Index(text[2]) * 4096
                + Base64Index(text[3]) * 64 + Base64Index(text[4])
       IN  <<n \div 65536, (n \div 256) % 256, n % 256>>
           \o FromBase64(SubSeq(text, 5, Len(text)))

HexValue(c) == (CHOOSE n \in DOMAIN HexDigits : HexDigits[n] = c) - 1

RECURSIVE PercentDecode(_)
\* The text a percent-encoded path segment stands for.
PercentDecode(text) ==
  IF Len(text) = 0 THEN <<>>
  ELSE IF text[1] = "%" /\ Len(text) >= 3
    THEN <<Ascii[16 * HexValue(text[2]) + HexValue(text[3]) - 31]>>
         \o PercentDecode(SubSeq(text, 4, Len(text)))
  ELSE <<text[1]>> \o PercentDecode(Tail(text))

----------------------------------------------------------------------------
(* Failure handling                                                        *)

\* C1: with continueOnFail on, when execute has returned and exactly one
\* item f failed with a payload parse, routing or request failure while the
\* response of every other item was a single bare object, the output holds
\* exactly one record per input item, the record at position f is
\* {error: message, itemIndex: f}, and a request was issued for every item
\* after f.
C1_OneFailureAmongN ==
  ( /\ pc = "done"
    /\ continueOnFail
    /\ Cardinality(Failures) = 1
    /\ \A k \in Failures : history[k].outcome \in {"parse", "routing", "uri", "request"}
    /\ \A k \in DOMAIN history \ Failures : BareObject(history[k].reply) )
  => LET f == (CHOOSE k \in Failures : TRUE) - 1
     IN  /\ Len(output) = 1
         /\ Len(output[1]) = Len(items)
         /\ history[f + 1].index = f
         /\ output[1][f + 1] =
              [json |-> JObject([error |-> history[f + 1].message, itemIndex |-> f])]
         /\ \A k \in DOMAIN history \ Failures :
              output[1][k] = [json |-> history[k].reply]
         /\ \A n \in (f + 1)..(Len(items) - 1) : n \in Range(sent)

\* An execution of two items whose first item failed to parse and whose
\* second item was answered with a bare object.
C1_Witness ==
  /\ pc = "done"
  /\ continueOnFail
  /\ Len(items) = 2
  /\ Failures = {1}
  /\ history[1].outcome = "parse"
  /\ BareObject(history[2].reply)

\* C2: with continueOnFail off, a failed item is the last item processed:
\* its error is thrown to the host, execute returns nothing, no request was
\* issued for an item with a larger index and nothing was added to
\* returnData for the failed item or after it.
C2_FirstFailureAborts ==
  ~continueOnFail =>
    \A k \in Failures :
      /\ pc = "thrown"
      /\ k = Len(history)
      /\ thrown = <<Err(history[k].outcome, history[k].message)>>
      /\ output = <<>>
      /\ inflight = <<>>
      /\ \A n \in Range(sent) : n <= history[k].index
      /\ Len(returnData) = AddedBefore(k)

\* The first of two items failed after its request and the second was never
\* dispatched.
C2_Witness ==
  /\ ~continueOnFail
  /\ pc = "thrown"
  /\ Len(items) = 2
  /\ history[1].outcome = "request"
  /\ sent = <<0>>

BadCredentials ==
  \/ credentials = JUndefined
  \/ credentials.authentication \notin {"basic", "pat"}

\* C3 as stated: a configuration error always aborts the execution, leaves
\* no {error, itemIndex} record and is the last thing that happens, whatever
\* continueOnFail says.
C3_ConfigErrorAlwaysFatal ==
  \A k \in DOMAIN history :
    history[k].outcome = "config" =>
      /\ pc = "thrown"
      /\ k = Len(history)
      /\ history[k].added = 0

\* C3 amended: a configuration error is raised before any network call and
\* is handled by the catch block like every other failure of an item: with
\* continueOnFail off it is thrown and no further item is processed, with
\* continueOnFail on it is recorded as {error, itemIndex} for that item and
\* the loop goes on.
C3_ConfigErrorHandledPerItem ==
  /\ BadCredentials => sent = <<>> /\ inflight = <<>>
  /\ \A k \in DOMAIN history :
       history[k].outcome = "config" =>
         /\ BadCredentials
         /\ history[k].message \in {NoCredentialsMessage, InvalidAuthMessage}
         /\ IF continueOnFail
            THEN /\ pc # "thrown"
                 /\ i > history[k].index
                 /\ RecordsOf(k) = <<JObject([error |-> history[k].message,
                                              itemIndex |-> history[k].index])>>
            ELSE /\ pc = "thrown"
                 /\ k = Len(history)
                 /\ thrown = <<Err("config", history[k].message)>>
                 /\ RecordsOf(k) = <<>>

\* With continueOnFail on, both items of an execution met the configuration
\* error and execute returned.
C3_Witness ==
  /\ continueOnFail
  /\ pc = "done"
  /\ Len(history) = 2
  /\ \A k \in DOMAIN history : history[k].outcome = "config"

----------------------------------------------------------------------------
(* The requests handed to the host transport                               *)

\* C4: every request handed to the transport carries an Authorization
\* header fixed by the stored credentials: for the basic method 'Basic '
\* followed by a base64 text that decodes to the bytes of username:password,
\* for the token method 'Bearer ' followed by the token; with credentials of
\* any other method no request is ever issued and every item that reaches
\* the helper fails with the configuration error.
C4_AuthorizationHeader ==
  /\ \A k \in DOMAIN inflight :
       LET headers == inflight[k].options.headers
           header == headers["Authorization"]
       IN  /\ "Authorization" \in DOMAIN headers
           /\ credentials # JUndefined
           /\ credentials.authentication \in {"basic", "pat"}
           /\ credentials.authentication = "basic" =>
                /\ SubSeq(header, 1, 6) = <<"B", "a", "s", "i", "c", " ">>
                /\ FromBase64(SubSeq(header, 7, Len(header)))
                     = BufferFrom(credentials.username \o <<":">> \o credentials.password)
           /\ credentials.authentication = "pat" =>
                header = <<"B", "e", "a", "r", "e", "r", " ">> \o credentials.pat
  /\ (credentials # JUndefined /\ credentials.authentication \notin {"basic", "pat"}) =>
       /\ sent = <<>>
       /\ \A k \in DOMAIN history :
            /\ history[k].outcome = "config"
            /\ history[k].message = InvalidAuthMessage

\* A request is in flight under basic credentials whose username:password
\* has a length that base64 pads.
C4_Witness ==
  /\ pc = "awaiting"
  /\ inflight # <<>>
  /\ credentials # JUndefined
  /\ credentials.authentication = "basic"
  /\ (Len(credentials.username) + 1 + Len(credentials.password)) % 3 = 2

\* The method the Operation selector's value stands for.
MethodOf(op) ==
  CASE op \in {"list", "get"} -> "GET"
    [] op = "create" -> "POST"
    [] op = "update" -> "PUT"
    [] op = "delete" -> "DELETE"

C6_LimitAndSkip ==
  \A k \in DOMAIN inflight :
    LET qs == inflight[k].options.qs
        options == items[inflight[k].index + 1].options
    IN  IF operation = "list"
        THEN /\ Has(qs, "limit") /\ Has(qs, "skip")
             /\ qs.limit = IF Has(options, "limit") THEN options.limit ELSE 50
             /\ qs.skip = IF Has(options, "skip") THEN options.skip ELSE 0
        ELSE ~Has(qs, "limit") /\ ~Has(qs, "skip")

\* C8 as stated: fields is sent only on list and get requests, and only when
\* a field selection is provided; query is sent only on a work items list
\* request and is the item's query as it is; create, update and delete
\* requests carry neither.
C8_FieldsAndQuery ==
  \A k \in DOMAIN inflight :
    LET qs == inflight[k].options.qs
        item == items[inflight[k].index + 1]
    IN  /\ Has(qs, "fields") =>
             /\ operation \in {"list", "get"}
             /\ Has(item.options, "fields")
             /\ item.options.fields # ""
             /\ qs.fields = item.options.fields
        /\ Has(qs, "query") =>
             /\ operation = "list"
             /\ resource = WorkItems
             /\ qs.query = item.query
        /\ operation \in {"create", "update", "delete"} =>
             ~Has(qs, "fields") /\ ~Has(qs, "query")

----------------------------------------------------------------------------
(* Responses, ordering and payloads                                        *)

\* C7: every item that succeeded added to returnData, after the records of
\* the items before it: the elements of the response's data property in
\* order when that is an array (none when it is empty), else the elements
\* of the response when the response is an array, else the response object
\* alone, also when it has a data property that is not an array.
C7_ResponseNormalization ==
  /\ Len(returnData) = AddedBefore(Len(history) + 1)
  /\ \A k \in DOMAIN history :
       history[k].outcome = "ok" =>
         LET reply == history[k].reply
         IN  IF reply.type = "object" /\ Has(reply.props, "data")
                /\ reply.props.data.type = "array"
             THEN RecordsOf(k) = reply.props.data.elems
             ELSE IF reply.type = "array" THEN RecordsOf(k) = reply.elems
             ELSE reply.type = "object" /\ RecordsOf(k) = <<reply>>

\* A response wrapping two records in data followed an item whose response
\* had a data property that is not an array.
C7_Witness ==
  /\ Len(history) = 2
  /\ history[1].outcome = "ok"
  /\ history[1].reply = [type |-> "object", props |-> [data |-> RecordB]]
  /\ history[2].outcome = "ok"
  /\ history[2].reply.type = "object"
  /\ Has(history[2].reply.props, "data")
  /\ history[2].reply.props.data = [type |-> "array", elems |-> <<RecordA, RecordB>>]

\* Items are taken in index order, one request at a time, at most one
\* request per item.
Sequential ==
  /\ Len(inflight) <= 1
  /\ \A k \in DOMAIN sent : sent[k] \in 0..(Len(items) - 1)
  /\ \A j, k \in DOMAIN sent : j < k => sent[j] < sent[k]
  /\ \A k \in DOMAIN history : history[k].index = k - 1
  /\ \A k \in DOMAIN inflight :
       /\ inflight[k].index = sent[Len(sent)]
       /\ inflight[k].index = i
       /\ Len(history) = i
  /\ inflight = <<>> => \A k \in DOMAIN sent : \E h \in DOMAIN history : history[h].index = sent[k]

\* C9 as stated: items are dispatched in index order, one request at a
\* time and at most one per item, and an item whose payload parsing and
\* routing succeeded issued exactly one request.
C9_OneRequestIfParsedAndRouted ==
  /\ Sequential
  /\ \A k \in DOMAIN history :
       history[k].outcome \notin {"parse", "routing", "uri"} =>
         history[k].index \in Range(sent)

\* C9 amended: items are dispatched in index order, one request at a time
\* and at most one per item; an item issued exactly one request when its
\* payload parsing and routing succeeded and the credentials gave an
\* Authorization header, and none otherwise.
C9_OneRequestIfPrepared ==
  /\ Sequential
  /\ \A k \in DOMAIN history :
       history[k].index \in Range(sent)
         <=> history[k].outcome \notin {"parse", "routing", "uri", "config"}

\* The request of the second item is in flight after the first item's
\* request completed.
C9_Witness ==
  /\ pc = "awaiting"
  /\ sent = <<0, 1>>
  /\ Len(history) = 1
  /\ Len(inflight) = 1

\* The payload texts that are JSON.
JsonTexts == {"{}", "{\"title\":\"T\"}"}

\* C10: for create and update an item whose data is not JSON fails with the
\* parse error, no request is issued for it, and the failure goes through
\* the catch block (recorded as {error, itemIndex} with the loop going on
\* when continueOnFail is on, thrown otherwise); for list, get and delete no
\* item fails to parse whatever its data holds and the body of every
\* request is empty.
C10_PayloadParse ==
  /\ \A k \in DOMAIN history :
       (operation \in {"create", "update"} /\ ItemOf(history[k]).data \notin JsonTexts) =>
         /\ history[k].outcome = "parse"
         /\ history[k].index \notin Range(sent)
         /\ IF continueOnFail
            THEN /\ pc # "thrown"
                 /\ i > history[k].index
                 /\ RecordsOf(k) = <<JObject([error |-> history[k].message,
                                              itemIndex |-> history[k].index])>>
            ELSE pc = "thrown" /\ k = Len(history)
  /\ \A k \in DOMAIN inflight :
       operation \in {"create", "update"} => items[inflight[k].index + 1].data \in JsonTexts
  /\ operation \in {"list", "get", "delete"} =>
       /\ \A k \in DOMAIN history : history[k].outcome # "parse"
       /\ \A k \in DOMAIN inflight : inflight[k].options.body = EmptyObject

\* An update whose first item had a malformed payload went on to its second
\* item, which succeeded.
C10_Witness ==
  /\ continueOnFail
  /\ operation = "update"
  /\ Len(history) = 2
  /\ ItemOf(history[1]).data = InvalidData
  /\ history[1].outcome = "parse"
  /\ history[2].outcome = "ok"

====
